---- MODULE Spec2Model ----
(***************************************************************************)
(* A model of findorf's Contig class (src/findorf/contig.py): the contig's *)
(* collection of HSP ranges, add_alignment, and the query methods that     *)
(* aggregate evidence over it.                                             *)
(*                                                                         *)
(* The program is Python 2 code: filter() and map() return lists, "/" on   *)
(* two ints is integer division, and a comparison of an int with a         *)
(* Counter is decided by the type order (numbers first).                   *)
(*                                                                         *)
(* Python values are tagged tuples, so that values of different Python     *)
(* types can be told apart: <<"None">>, <<"bool", b>>, <<"int", n>>,       *)
(* <<"str", s>>, <<"AnchorHSPs", relative, most_5prime, most_3prime>>,     *)
(* and <<"raise", e>> for a call that ends with exception e.               *)
(*                                                                         *)
(* An expect value is a real number in the program; the model keeps only   *)
(* its order against the thresholds and uses integers.                     *)
(***************************************************************************)
EXTENDS Integers, Sequences, FiniteSets, TLC

VARIABLES record, hsps, has_relative, call

vars == <<record, hsps, has_relative, call>>

(***************************************************************************)
(* Bounds of the model.                                                    *)
(***************************************************************************)
\* the largest number of ranges a contig's collection holds
MaxHSPs == 3
\* the same, where the HSPs differ in more of their fields
MaxAnchorHSPs == 2

(***************************************************************************)
(* Program constants.                                                      *)
(***************************************************************************)
DEFAULT_MIN_EXPECT == 10
DEFAULT_QS_THRESH == 16
DEFAULT_SS_THRESH == 40

(***************************************************************************)
(* Python values.                                                          *)
(***************************************************************************)
None == <<"None">>
PyBool(b) == <<"bool", b>>
PyInt(n) == <<"int", n>>
PyStr(s) == <<"str", s>>
Raise(e) == <<"raise", e>>

IsNone(v) == v[1] = "None"
IsRaise(v) == v[1] = "raise"

Abs(n) == IF n < 0 THEN -n ELSE n

\* f/abs(f) on a non-zero int
Sign(f) == IF f < 0 THEN -1 ELSE 1

\* the set of the elements of a sequence: set(s)
SetOf(s) == {s[k] : k \in 1..Len(s)}

RECURSIVE Sum(_)
\* sum(s) of a sequence of ints
Sum(s) == IF s = <<>> THEN 0 ELSE Head(s) + Sum(Tail(s))

(***************************************************************************)
(* BioRanges.lightweight, as the contig uses it. A SeqRange is a record    *)
(* with the Range's start and end (both inclusive: width = end-start+1),   *)
(* the sequence name, strand and length, and the data dictionary, whose    *)
(* keys are the record's other fields (seqrange['key'] reads data).        *)
(***************************************************************************)
width(r) == r.end - r.start + 1

(***************************************************************************)
(* _HSP_to_dict: the two sanity assertions, then the dictionary.           *)
(* percent_identity is the quotient identities/align_length, kept as the   *)
(* pair <<numerator, denominator>>.                                        *)
(***************************************************************************)
\* leaves out the assertion on the subject range
HSP_to_dictMutNoSbjct(hsp) ==
    IF hsp.frame[2] # 0
    THEN Raise("AssertionError")
    ELSE <<"dict", [expect |-> hsp.expect,
                    identities |-> hsp.identities,
                    align_length |-> hsp.align_length,
                    percent_identity |-> <<hsp.identities, hsp.align_length>>,
                    sbjct_start |-> hsp.sbjct_start,
                    sbjct_end |-> hsp.sbjct_end,
                    frame |-> hsp.frame[1]]>>

HSP_to_dict(hsp) ==
    IF hsp.frame[2] # 0
    THEN Raise("AssertionError")
    ELSE IF ~(hsp.sbjct_start < hsp.sbjct_end)
    THEN Raise("AssertionError")
    ELSE <<"dict", [expect |-> hsp.expect,
                    identities |-> hsp.identities,
                    align_length |-> hsp.align_length,
                    percent_identity |-> <<hsp.identities, hsp.align_length>>,
                    sbjct_start |-> hsp.sbjct_start,
                    sbjct_end |-> hsp.sbjct_end,
                    frame |-> hsp.frame[1]]>>

(***************************************************************************)
(* The SeqRange add_alignment builds for one HSP whose dictionary is data. *)
(***************************************************************************)
MakeSeqRange(hsp, data, relative, title) ==
    [start |-> hsp.query_start - 1,
     end |-> hsp.query_end - 1,
     seqname |-> record.id,
     strand |-> IF hsp.frame[1] < 0 THEN "-" ELSE "+",
     seqlength |-> record.seqlen,
     expect |-> data.expect,
     identities |-> data.identities,
     align_length |-> data.align_length,
     percent_identity |-> data.percent_identity,
     sbjct_start |-> data.sbjct_start,
     sbjct_end |-> data.sbjct_end,
     frame |-> data.frame,
     relative |-> relative,
     title |-> title]

RECURSIVE AppendHSPs(_, _, _, _)
\* The loop of add_alignment over best_alignment.hsps: the collection it
\* leaves and how it ended. A failed assertion leaves the ranges appended
\* by the earlier iterations in the collection.
AppendHSPs(acc, todo, relative, title) ==
    IF todo = <<>>
    THEN [hsps |-> acc, exc |-> ""]
    ELSE LET hsp == Head(todo)
             qstart == hsp.query_start - 1
             qend == hsp.query_end - 1
         IN IF ~(qstart <= qend)
            THEN [hsps |-> acc, exc |-> "AssertionError"]
            ELSE LET data == HSP_to_dict(hsp)
                 IN IF IsRaise(data)
                    THEN [hsps |-> acc, exc |-> data[2]]
                    ELSE AppendHSPs(Append(acc, MakeSeqRange(hsp, data[2], relative, title)),
                                    Tail(todo), relative, title)

(***************************************************************************)
(* filter(lambda x: x['expect'] <= min_expect, self.hsps)                  *)
(***************************************************************************)
filtered_hsps(min_expect) == SelectSeq(hsps, LAMBDA x : x.expect <= min_expect)

\* the keys of groupby(sorted(frames, key=itemgetter(0)), itemgetter(0))
GroupKeys(s) == {s[k].relative : k \in 1..Len(s)}

\* the group of one key: the records of that relative, in their order
Group(s, relative) == SelectSeq(s, LAMBDA x : x.relative = relative)

\* map(itemgetter(1), hsps_info) and map(itemgetter(2), hsps_info)
FramesOf(s) == [k \in 1..Len(s) |-> s[k].frame]
IdentitiesOf(s) == [k \in 1..Len(s) |-> s[k].identities]

(***************************************************************************)
(* Contig.count_frames: the Counter, a function from the frames seen to    *)
(* the identities added up for each, built by the loop.                    *)
(***************************************************************************)
RECURSIVE CountLoopMutRecords(_, _)
\* counts the records of a frame, not their identities
CountLoopMutRecords(frames, todo) ==
    IF todo = <<>>
    THEN frames
    ELSE LET hsp == Head(todo)
             old == IF hsp.frame \in DOMAIN frames THEN frames[hsp.frame] ELSE 0
         IN CountLoopMutRecords([f \in DOMAIN frames \cup {hsp.frame} |->
                                    IF f = hsp.frame THEN old + 1 ELSE frames[f]],
                                Tail(todo))

RECURSIVE CountLoop(_, _)
CountLoop(frames, todo) ==
    IF todo = <<>>
    THEN frames
    ELSE LET hsp == Head(todo)
             old == IF hsp.frame \in DOMAIN frames THEN frames[hsp.frame] ELSE 0
         IN CountLoop([f \in DOMAIN frames \cup {hsp.frame} |->
                          IF f = hsp.frame THEN old + hsp.identities ELSE frames[f]],
                      Tail(todo))

count_frames(min_expect) == CountLoop(<<>>, filtered_hsps(min_expect))

(***************************************************************************)
(* Contig.majority_frame. Counter.most_common(1) returns an entry with the *)
(* largest count; entries with equal counts come in an arbitrary order,    *)
(* so the operator is the set of the values the call can return.           *)
(***************************************************************************)
majority_frame(min_expect) ==
    IF ~has_relative
    THEN {None}
    ELSE LET frames == count_frames(min_expect)
         IN IF DOMAIN frames # {}
            THEN {PyInt(f) : f \in {g \in DOMAIN frames :
                                      \A h \in DOMAIN frames : frames[h] <= frames[g]}}
            ELSE {None}

(***************************************************************************)
(* Contig.any_frameshift                                                   *)
(***************************************************************************)
\* asks for more than two frames
any_frameshiftMutTwo(min_expect) ==
    IF ~has_relative
    THEN None
    ELSE LET frames == count_frames(min_expect)
         IN IF DOMAIN frames # {}
            THEN PyBool(Cardinality(DOMAIN frames) > 2)
            ELSE None

any_frameshift(min_expect) ==
    IF ~has_relative
    THEN None
    ELSE LET frames == count_frames(min_expect)
         IN IF DOMAIN frames # {}
            THEN PyBool(Cardinality(DOMAIN frames) > 1)
            ELSE None

(***************************************************************************)
(* Contig.inconsistent_strand. The Counter counts the relatives by whether *)
(* their HSPs use more than one strand. The method returns the comparison  *)
(* of an int with the Counter itself, which Python 2 decides by the types: *)
(* a number is smaller than any object that is not a number.               *)
(***************************************************************************)
StrandsOf(s) == {Sign(s[k].frame) : k \in 1..Len(s)}

InconsistentStrandCounter(min_expect) ==
    LET frames == filtered_hsps(min_expect)
    IN [b \in BOOLEAN |->
          Cardinality({relative \in GroupKeys(frames) :
                          (Cardinality(StrandsOf(Group(frames, relative))) > 1) = b})]

\* n >= counter, for an int n and a Counter
IntGeCounter(n, counter) == FALSE

inconsistent_strand(min_expect) ==
    LET counter == InconsistentStrandCounter(min_expect)
    IN IntGeCounter(counter[TRUE], counter)

(***************************************************************************)
(* Contig.get_strand                                                       *)
(***************************************************************************)
get_strand(min_expect) ==
    IF ~has_relative \/ inconsistent_strand(min_expect)
    THEN None
    ELSE LET filtered == filtered_hsps(min_expect)
             strands == [k \in 1..Len(filtered) |-> filtered[k].strand]
         IN IF Cardinality(SetOf(strands)) # 1
            THEN Raise("AssertionError")
            ELSE PyStr(strands[1])

(***************************************************************************)
(* Contig.get_anchor_HSPs. sorted() is stable, also with reverse=True, so  *)
(* [0] of the sorted indices is the first index with the extreme value.    *)
(***************************************************************************)
FirstMaxEnd(s) ==
    CHOOSE i \in 1..Len(s) :
       /\ \A k \in 1..Len(s) : s[k].end <= s[i].end
       /\ \A k \in 1..(i - 1) : s[k].end < s[i].end

\* takes the last of several records with the least start
FirstMinStartMutLast(s) ==
    CHOOSE j \in 1..Len(s) :
       /\ \A k \in 1..Len(s) : s[j].start <= s[k].start
       /\ \A k \in (j + 1)..Len(s) : s[j].start < s[k].start

FirstMinStart(s) ==
    CHOOSE j \in 1..Len(s) :
       /\ \A k \in 1..Len(s) : s[j].start <= s[k].start
       /\ \A k \in 1..(j - 1) : s[j].start < s[k].start

AnchorHSPs(relative, most_5prime, most_3prime) ==
    <<"AnchorHSPs", relative, most_5prime, most_3prime>>

get_anchor_HSPs(min_expect) ==
    IF ~has_relative
    THEN None
    ELSE IF Len(hsps) = 0
    THEN Raise("IndexError")
    ELSE LET i == FirstMaxEnd(hsps)
             j == FirstMinStart(hsps)
             strand == get_strand(min_expect)
         IN IF IsRaise(strand)
            THEN strand
            ELSE IF strand = PyStr("-")
            THEN AnchorHSPs(hsps[i].relative, hsps[i], hsps[j])
            ELSE AnchorHSPs(hsps[j].relative, hsps[j], hsps[i])

(***************************************************************************)
(* Contig.majority_frameshift: the Counter adds up, per relative, the      *)
(* identities of its HSPs under the key "has HSPs in several frames".      *)
(***************************************************************************)
RECURSIVE FrameshiftLoopMutHSPs(_, _, _)
\* takes a relative with several HSPs for one with several frames
FrameshiftLoopMutHSPs(frameshifts, frames, keys) ==
    IF keys = {}
    THEN frameshifts
    ELSE LET relative == CHOOSE r \in keys : TRUE
             hsps_info == Group(frames, relative)
             has_multiple_frames == Len(FramesOf(hsps_info)) > 1
             num_identities == IdentitiesOf(hsps_info)
         IN FrameshiftLoopMutHSPs([frameshifts EXCEPT ![has_multiple_frames] = @ + Sum(num_identities)],
                                  frames, keys \ {relative})

RECURSIVE FrameshiftLoop(_, _, _)
FrameshiftLoop(frameshifts, frames, keys) ==
    IF keys = {}
    THEN frameshifts
    ELSE LET relative == CHOOSE r \in keys : TRUE
             hsps_info == Group(frames, relative)
             has_multiple_frames == Cardinality(SetOf(FramesOf(hsps_info))) > 1
             num_identities == IdentitiesOf(hsps_info)
         IN FrameshiftLoop([frameshifts EXCEPT ![has_multiple_frames] = @ + Sum(num_identities)],
                           frames, keys \ {relative})

majority_frameshift(min_expect) ==
    IF ~has_relative
    THEN None
    ELSE LET frames == filtered_hsps(min_expect)
             frameshifts == FrameshiftLoop([b \in BOOLEAN |-> 0], frames, GroupKeys(frames))
         IN PyBool(frameshifts[TRUE] >= frameshifts[FALSE])

(***************************************************************************)
(* Contig.missing_5prime                                                   *)
(***************************************************************************)
missing_5prime(qs_thresh, ss_thresh, min_expect) ==
    IF ~has_relative
    THEN None
    ELSE LET anchors == get_anchor_HSPs(min_expect)
         IN IF IsRaise(anchors)
            THEN anchors
            ELSE LET most_5prime == anchors[3]
                 IN IF most_5prime.strand = "-"
                    THEN PyBool(most_5prime.start <= qs_thresh
                                /\ most_5prime.sbjct_start >= ss_thresh)
                    ELSE LET qs == Abs(most_5prime.start - width(most_5prime)) + 1
                         IN PyBool(qs <= qs_thresh /\ most_5prime.sbjct_start >= ss_thresh)

(***************************************************************************)
(* Contig.predict_orf. The method reads self.has_relatives first; the      *)
(* attributes of a Contig are those __init__ sets and those of the class.  *)
(* The operator is the set of the outcomes of the call: how it ended and   *)
(* the value of its local variable frame at that point (None: not set).    *)
(***************************************************************************)
ContigAttributes ==
    {"record", "annotation", "hsps", "has_relative",
     "seq", "id", "description", "add_alignment", "get_anchor_HSPs", "get_strand",
     "count_frames", "majority_frame", "any_frameshift", "inconsistent_strand",
     "majority_frameshift", "missing_5prime", "predict_orf"}

Outcome(ret, frame) == [ret |-> ret, frame |-> frame]

\* lines 317-343, reached once the guard of line 313 lets the call through
PredictFrom(min_expect) ==
    LET strand == get_strand(min_expect)
        anchors == get_anchor_HSPs(min_expect)
        has_majority_frameshift == majority_frameshift(min_expect)
        missing == missing_5prime(min_expect, DEFAULT_SS_THRESH, DEFAULT_MIN_EXPECT)
        end == IF IsRaise(missing) THEN missing ELSE None
    IN IF IsRaise(strand)
       THEN {Outcome(strand, None)}
       ELSE IF IsRaise(anchors)
       THEN {Outcome(anchors, None)}
       ELSE IF IsNone(anchors)
       THEN {Outcome(Raise("TypeError"), None)}
       ELSE IF has_majority_frameshift = PyBool(TRUE)
       THEN \* {}[most_5prime.strand]: the dictionary is empty
            {Outcome(Raise("KeyError"), PyInt(anchors[3].frame))}
       ELSE {IF IsNone(frame)
             THEN Outcome(Raise("TypeError"), frame)
             ELSE IF IsNone(strand)
             THEN Outcome(Raise("KeyError"), frame)
             ELSE IF (IF strand = PyStr("+") THEN 1 ELSE -1) # Sign(frame[2])
             THEN Outcome(Raise("AssertionError"), frame)
             ELSE Outcome(end, frame)
              : frame \in majority_frame(min_expect)}

predict_orf(e_value, qs_thresh, ss_thresh, min_expect) ==
    IF "has_relatives" \notin ContigAttributes
    THEN {Outcome(Raise("AttributeError"), None)}
    ELSE IF inconsistent_strand(min_expect)
    THEN {Outcome(None, None)}
    ELSE PredictFrom(min_expect)

(***************************************************************************)
(* Contig.__init__(record). The sequence record is kept as its id and the  *)
(* length of its sequence.                                                 *)
(***************************************************************************)
SeqRecord(id, seqlen) == [id |-> id, seqlen |-> seqlen]

Contig(rec) ==
    /\ record = rec
    /\ hsps = <<>>
    /\ has_relative = FALSE
    /\ call = [op |-> "__init__", args |-> <<>>, ret |-> None]

\* a contig of 200 bases
Init == Contig(SeqRecord("contig", 200))

\* a contig of 300 bases
InitLong == Contig(SeqRecord("contig", 300))

(***************************************************************************)
(* Contig.add_alignment(relative, blast_record)                            *)
(***************************************************************************)
add_alignment(relative, blast_record) ==
    IF Len(blast_record.alignments) = 0
    THEN /\ call' = [op |-> "add_alignment", args |-> <<relative, blast_record>>, ret |-> None]
         /\ UNCHANGED <<record, hsps, has_relative>>
    ELSE LET best_alignment == blast_record.alignments[1]
             done == AppendHSPs(hsps, best_alignment.hsps, relative, best_alignment.title)
         IN /\ hsps' = done.hsps
            /\ record' = record
            /\ has_relative' = IF done.exc = "" THEN TRUE ELSE has_relative
            /\ call' = [op |-> "add_alignment", args |-> <<relative, blast_record>>,
                        ret |-> IF done.exc = "" THEN None ELSE Raise(done.exc)]

(***************************************************************************)
(* The query methods. A query leaves the contig as it is; call records the *)
(* call and how it ended. thresholds is the set the caller draws           *)
(* min_expect from.                                                        *)
(***************************************************************************)
Query(op, args, ret) ==
    /\ call' = [op |-> op, args |-> args, ret |-> ret]
    /\ UNCHANGED <<record, hsps, has_relative>>

CallGetStrand(thresholds) ==
    \E m \in thresholds : Query("get_strand", <<m>>, get_strand(m))

CallInconsistentStrand(thresholds) ==
    \E m \in thresholds :
       Query("inconsistent_strand", <<m>>, PyBool(inconsistent_strand(m)))

CallCountFrames(thresholds) ==
    \E m \in thresholds : Query("count_frames", <<m>>, <<"Counter", count_frames(m)>>)

CallMajorityFrame(thresholds) ==
    \E m \in thresholds : \E ret \in majority_frame(m) : Query("majority_frame", <<m>>, ret)

CallAnyFrameshift(thresholds) ==
    \E m \in thresholds : Query("any_frameshift", <<m>>, any_frameshift(m))

CallMajorityFrameshift(thresholds) ==
    \E m \in thresholds : Query("majority_frameshift", <<m>>, majority_frameshift(m))

CallGetAnchorHSPs(thresholds) ==
    \E m \in thresholds : Query("get_anchor_HSPs", <<m>>, get_anchor_HSPs(m))

CallMissing5prime(thresholds) ==
    \E m \in thresholds :
       Query("missing_5prime", <<DEFAULT_QS_THRESH, DEFAULT_SS_THRESH, m>>,
             missing_5prime(DEFAULT_QS_THRESH, DEFAULT_SS_THRESH, m))

CallPredictOrf(thresholds) ==
    \E m \in thresholds :
       \E out \in predict_orf(None, DEFAULT_QS_THRESH, DEFAULT_SS_THRESH, m) :
          /\ call' = [op |-> "predict_orf",
                      args |-> <<DEFAULT_QS_THRESH, DEFAULT_SS_THRESH, m>>,
                      ret |-> out.ret, frame |-> out.frame]
          /\ UNCHANGED <<record, hsps, has_relative>>

(***************************************************************************)
(* The inputs: BioPython HSPs, alignments and BLAST records.               *)
(***************************************************************************)
Relatives == {"A", "B"}

\* min_expect: the default, and a stricter threshold
MinExpects == {5, DEFAULT_MIN_EXPECT}

HSP(query_start, query_end, frame, expect, identities, sbjct_start, sbjct_end) ==
    [query_start |-> query_start, query_end |-> query_end, frame |-> frame,
     expect |-> expect, identities |-> identities, align_length |-> identities + 2,
     sbjct_start |-> sbjct_start, sbjct_end |-> sbjct_end]

Alignment(title, hsplist) == [title |-> title, hsps |-> hsplist]

BlastRecord(alignments) == [alignments |-> alignments]

\* a record with one alignment of one HSP
OneHit(hsp) == BlastRecord(<<Alignment("best hit", <<hsp>>)>>)

\* the number of HSPs add_alignment reads from a record
HSPCount(blast_record) ==
    IF Len(blast_record.alignments) = 0 THEN 0 ELSE Len(blast_record.alignments[1].hsps)

\* the HSPs add_alignment reads lie on the contig
OnContig(blast_record) ==
    \A a \in 1..Len(blast_record.alignments) :
       a = 1 => \A k \in 1..Len(blast_record.alignments[a].hsps) :
                   blast_record.alignments[a].hsps[k].query_end <= record.seqlen

\* add_alignment called with a record of the set, while the collection
\* stays within cap ranges
AddFrom(records, cap) ==
    \E relative \in Relatives : \E blast_record \in records :
       /\ Len(hsps) + HSPCount(blast_record) <= cap
       /\ OnContig(blast_record)
       /\ add_alignment(relative, blast_record)

(***************************************************************************)
(* Frames: HSPs that differ in frame, identities and expect (at the        *)
(* threshold, or above it).                                                *)
(***************************************************************************)
FrameRecords ==
    {OneHit(HSP(5, 14, <<f, 0>>, en[1], en[2], 1, 60)) :
        f \in {1, 2, 3}, en \in {<<10, 1>>, <<10, 3>>, <<20, 3>>}}

NextFrames ==
    \/ AddFrom(FrameRecords, MaxHSPs)
    \/ CallCountFrames({DEFAULT_MIN_EXPECT})
    \/ CallMajorityFrame({DEFAULT_MIN_EXPECT})
    \/ CallAnyFrameshift({DEFAULT_MIN_EXPECT})
    \/ CallMajorityFrameshift({DEFAULT_MIN_EXPECT})

SpecFrames == Init /\ [][NextFrames]_vars

(***************************************************************************)
(* Anchors: HSPs that differ in query range (with ties at both ends),      *)
(* strand, expect and identities.                                          *)
(***************************************************************************)
AnchorRecords ==
    {OneHit(HSP(q[1], q[2], <<f, 0>>, e, n, 1, 60)) :
        q \in {<<11, 100>>, <<11, 250>>, <<151, 250>>},
        f \in {1, -1}, e \in {10, 20}, n \in {1, 3}}

NextAnchors ==
    \/ AddFrom(AnchorRecords, MaxAnchorHSPs)
    \/ CallGetStrand({DEFAULT_MIN_EXPECT})
    \/ CallInconsistentStrand({DEFAULT_MIN_EXPECT})
    \/ CallGetAnchorHSPs({DEFAULT_MIN_EXPECT})

SpecAnchors == InitLong /\ [][NextAnchors]_vars

(***************************************************************************)
(* Ingest: records with no, one or two alignments, whose HSPs may break    *)
(* the assertions of add_alignment and _HSP_to_dict.                       *)
(***************************************************************************)
GoodHSPs == {HSP(5, 14, <<1, 0>>, 10, 3, 1, 60), HSP(21, 100, <<-2, 0>>, 20, 1, 50, 60)}

BadHSPs ==
    {HSP(14, 5, <<1, 0>>, 10, 3, 1, 60),
     HSP(5, 14, <<1, 1>>, 10, 3, 1, 60),
     HSP(5, 14, <<1, 0>>, 10, 3, 60, 60)}

\* the HSP lists of a best alignment: up to two HSPs
BestHSPLists ==
    {<<>>} \cup {<<h>> : h \in GoodHSPs \cup BadHSPs}
           \cup {<<g, h>> : g \in GoodHSPs, h \in GoodHSPs \cup BadHSPs}

LowerHSP == HSP(7, 9, <<3, 0>>, 10, 2, 2, 9)

IngestRecords ==
    {BlastRecord(<<>>)}
    \cup {BlastRecord(<<Alignment("best hit", l)>>) : l \in BestHSPLists}
    \cup {BlastRecord(<<Alignment("best hit", l), Alignment("second hit", <<LowerHSP>>)>>) :
             l \in BestHSPLists}

NextIngest == AddFrom(IngestRecords, MaxHSPs)

SpecIngest == Init /\ [][NextIngest]_vars

(***************************************************************************)
(* All the operations of a contig, on HSPs that differ in query range,     *)
(* strand, expect and subject start, and on records with no alignment or   *)
(* with an alignment without HSPs.                                         *)
(***************************************************************************)
AllRecords ==
    {BlastRecord(<<>>), BlastRecord(<<Alignment("best hit", <<>>)>>)}
    \cup {OneHit(HSP(q[1], q[2], <<f, 0>>, e, 3, s, 60)) :
             q \in {<<6, 15>>, <<21, 100>>}, f \in {1, -1}, e \in {10, 20}, s \in {1, 50}}

Next ==
    \/ AddFrom(AllRecords, MaxAnchorHSPs)
    \/ CallGetStrand(MinExpects)
    \/ CallInconsistentStrand(MinExpects)
    \/ CallCountFrames(MinExpects)
    \/ CallMajorityFrame(MinExpects)
    \/ CallAnyFrameshift(MinExpects)
    \/ CallMajorityFrameshift(MinExpects)
    \/ CallGetAnchorHSPs(MinExpects)
    \/ CallMissing5prime(MinExpects)
    \/ CallPredictOrf(MinExpects)

Spec == Init /\ [][Next]_vars

(***************************************************************************)
(* What the claims speak of.                                               *)
(***************************************************************************)
\* the thresholds of the call recorded in call: min_expect is its last argument
CallMinExpect == call.args[Len(call.args)]

\* the positions of the records that pass the expect threshold m
Passing(m) == {k \in 1..Len(hsps) : hsps[k].expect <= m}

QueryMethods ==
    {"get_strand", "majority_frame", "any_frameshift", "majority_frameshift",
     "get_anchor_HSPs", "missing_5prime"}

\* C1: when the records that pass min_expect hold a '+' record and a '-'
\* record (of one relative or of two), get_strand returns None and does
\* not fail.
C1_BothStrandsIndeterminate ==
    (/\ call.op = "get_strand"
     /\ has_relative
     /\ \E k \in Passing(CallMinExpect) : hsps[k].strand = "+"
     /\ \E k \in Passing(CallMinExpect) : hsps[k].strand = "-")
    => call.ret = None

\* C2: both records get_anchor_HSPs returns pass the expect threshold.
C2_AnchorsPassExpect ==
    (call.op = "get_anchor_HSPs" /\ call.ret[1] = "AnchorHSPs")
    => /\ call.ret[3].expect <= CallMinExpect
       /\ call.ret[4].expect <= CallMinExpect

\* C3: without a relative, or when no record passes min_expect, each of the
\* six query methods returns None: no definite answer and no exception.
C3_NoEvidenceIsNone ==
    (/\ call.op \in QueryMethods
     /\ (~has_relative \/ Passing(CallMinExpect) = {}))
    => call.ret = None

\* C6: with the 5'-most anchor on the '+' strand, missing_5prime returns
\* whether |query start - contig length| + 1 <= qs_thresh and
\* subject start >= ss_thresh.
C6_ForwardTruncationUsesContigLength ==
    (/\ call.op = "missing_5prime"
     /\ call.ret[1] = "bool"
     /\ get_anchor_HSPs(CallMinExpect)[3].strand = "+")
    => LET most_5prime == get_anchor_HSPs(CallMinExpect)[3]
           qs == Abs(most_5prime.start - record.seqlen) + 1
       IN call.ret = PyBool(qs <= call.args[1] /\ most_5prime.sbjct_start >= call.args[2])

\* the records that pass m are there and share one strand
ConsistentStrand(m) ==
    /\ Passing(m) # {}
    /\ \A k, l \in Passing(m) : hsps[k].strand = hsps[l].strand

\* C7: on a contig with a relative and a consistent strand, predict_orf
\* gets to the frame inference and adopts most_5prime's frame under a
\* majority frameshift and the majority frame otherwise; up to there it
\* can only fail with the assertion on the sign of the frame.
C7_PredictOrfAdoptsFrame ==
    (/\ call.op = "predict_orf"
     /\ has_relative
     /\ ConsistentStrand(CallMinExpect))
    => LET m == CallMinExpect
           adopted == IF majority_frameshift(m) = PyBool(TRUE)
                      THEN {PyInt(get_anchor_HSPs(m)[3].frame)}
                      ELSE majority_frame(m)
       IN /\ call.frame \in adopted
          /\ IsRaise(call.ret) /\ call.ret # Raise("AssertionError")
                => get_strand(m) = PyStr(IF call.frame[2] < 0 THEN "-" ELSE "+")

\* the identities of the records at the positions of a set, added up
RECURSIVE IdentitiesAt(_)
IdentitiesAt(positions) ==
    IF positions = {}
    THEN 0
    ELSE LET k == CHOOSE p \in positions : TRUE
         IN hsps[k].identities + IdentitiesAt(positions \ {k})

\* the positions of the records that pass m and carry frame f
WithFrame(m, f) == {k \in Passing(m) : hsps[k].frame = f}

PassingFrames(m) == {hsps[k].frame : k \in Passing(m)}

\* C4: count_frames maps each frame of a record that passes min_expect to
\* the identities of the passing records of that frame, added up; and when
\* the identities of one frame exceed those of all the other frames
\* together, majority_frame returns that frame.
C4_WeightedMajorityFrame ==
    LET m == CallMinExpect
    IN /\ call.op = "count_frames"
            => call.ret[2] = [f \in PassingFrames(m) |-> IdentitiesAt(WithFrame(m, f))]
       /\ call.op = "majority_frame"
            => \A f \in PassingFrames(m) :
                  IdentitiesAt(WithFrame(m, f)) > IdentitiesAt(Passing(m) \ WithFrame(m, f))
                     => call.ret = PyInt(f)

\* majority_frame has returned the frame of the second of three passing
\* records, whose identities exceed those of the two other frames together
C4_Witness ==
    /\ call.op = "majority_frame"
    /\ Passing(CallMinExpect) = {1, 2, 3}
    /\ Cardinality(PassingFrames(CallMinExpect)) = 3
    /\ hsps[2].identities > hsps[1].identities + hsps[3].identities
    /\ call.ret = PyInt(hsps[2].frame)

\* the frames the passing records of a relative use
FramesOfRelative(m, relative) ==
    {hsps[k].frame : k \in {p \in Passing(m) : hsps[p].relative = relative}}

\* the positions of the passing records whose relative uses several frames
Frameshifted(m) ==
    {k \in Passing(m) : Cardinality(FramesOfRelative(m, hsps[k].relative)) > 1}

\* C5: when a record passes min_expect, majority_frameshift is true exactly
\* when the identities of the passing records of the relatives that use
\* several frames are at least those of the passing records of the
\* relatives that use one frame.
C5_MajorityFrameshiftWeighted ==
    (call.op = "majority_frameshift" /\ Passing(CallMinExpect) # {})
    => LET m == CallMinExpect
       IN call.ret = PyBool(IdentitiesAt(Frameshifted(m))
                               >= IdentitiesAt(Passing(m) \ Frameshifted(m)))

\* majority_frameshift has returned false for two relatives that use one
\* frame each, and not the same one
C5_Witness ==
    /\ call.op = "majority_frameshift"
    /\ call.ret = PyBool(FALSE)
    /\ Passing(CallMinExpect) = {1, 2}
    /\ hsps[1].relative # hsps[2].relative
    /\ hsps[1].frame # hsps[2].frame

\* C10: when a record passes min_expect (identities are 1 or more), a
\* majority frameshift comes with a frameshift in the frame tally:
\* majority_frameshift is not true where any_frameshift is false.
C10_MajorityImpliesAnyFrameshift ==
    LET m == CallMinExpect
    IN /\ (/\ call.op = "majority_frameshift"
           /\ Passing(m) # {}
           /\ \A k \in 1..Len(hsps) : hsps[k].identities >= 1
           /\ call.ret = PyBool(TRUE))
          => any_frameshift(m) = PyBool(TRUE)
       /\ (/\ call.op = "any_frameshift"
           /\ Passing(m) # {}
           /\ \A k \in 1..Len(hsps) : hsps[k].identities >= 1
           /\ call.ret = PyBool(FALSE))
          => majority_frameshift(m) = PyBool(FALSE)

\* majority_frameshift has returned true with three passing records, one of
\* a relative with a single frame
C10_Witness ==
    /\ call.op = "majority_frameshift"
    /\ call.ret = PyBool(TRUE)
    /\ Passing(CallMinExpect) = {1, 2, 3}
    /\ Passing(CallMinExpect) \ Frameshifted(CallMinExpect) # {}
    /\ any_frameshift(CallMinExpect) = PyBool(TRUE)

\* the other direction of C10 does not hold: a state where any_frameshift
\* is true and majority_frameshift has returned false
C10_ConverseFails ==
    /\ call.op = "majority_frameshift"
    /\ call.ret = PyBool(FALSE)
    /\ Passing(CallMinExpect) # {}
    /\ any_frameshift(CallMinExpect) = PyBool(TRUE)

\* the range add_alignment stores for an HSP of a relative's alignment
Stores(range, hsp, relative, title) ==
    /\ range.start = hsp.query_start - 1
    /\ range.end = hsp.query_end - 1
    /\ range.frame = hsp.frame[1]
    /\ range.expect = hsp.expect
    /\ range.identities = hsp.identities
    /\ range.sbjct_start = hsp.sbjct_start
    /\ range.sbjct_end = hsp.sbjct_end
    /\ range.relative = relative
    /\ range.title = title

C8_StoredOK ==
    \A k \in 1..Len(hsps) :
       /\ hsps[k].sbjct_start < hsps[k].sbjct_end
       /\ hsps[k].start <= hsps[k].end
       /\ hsps[k].frame # 0
       /\ hsps[k].strand = "+" <=> hsps[k].frame > 0
       /\ hsps[k].strand = "-" <=> hsps[k].frame < 0

C8_Step ==
    /\ Len(hsps') >= Len(hsps)
    /\ SubSeq(hsps', 1, Len(hsps)) = hsps
    /\ call'.op = "add_alignment"
         => LET relative == call'.args[1]
                alignments == call'.args[2].alignments
                added == Len(hsps') - Len(hsps)
            IN IF Len(alignments) = 0
               THEN hsps' = hsps /\ has_relative' = has_relative
               ELSE /\ added <= Len(alignments[1].hsps)
                    /\ \A k \in 1..added :
                          Stores(hsps'[Len(hsps) + k], alignments[1].hsps[k],
                                 relative, alignments[1].title)

\* C8: add_alignment keeps the ranges stored before it as they are and in
\* their order, appends ranges of HSPs of the first alignment of its
\* record only, in their order, and changes nothing when the record has no
\* alignment; and every range stored has subject start < subject end,
\* query start <= query end and the strand of the sign of its frame.
C8_AppendOnlyBestAlignment == []C8_StoredOK /\ [][C8_Step]_vars

\* a call with a record of two alignments has brought the collection to
\* three ranges, of two relatives, all of a first alignment
C8_Witness ==
    /\ call.op = "add_alignment"
    /\ Len(call.args[2].alignments) = 2
    /\ Len(hsps) = 3
    /\ hsps[1].relative # hsps[3].relative
    /\ hsps[3].relative = call.args[1]
    /\ \A k \in 1..3 : hsps[k].title = "best hit"

\* the least and the greatest number of a set
MinOf(S) == CHOOSE x \in S : \A y \in S : x <= y
MaxOf(S) == CHOOSE x \in S : \A y \in S : y <= x

\* the record with the greatest query end, and the one with the least
\* query start, of the whole collection; the earliest of several
EarliestMaxEnd ==
    LET top == MaxOf({hsps[k].end : k \in 1..Len(hsps)})
    IN hsps[MinOf({k \in 1..Len(hsps) : hsps[k].end = top})]

EarliestMinStart ==
    LET low == MinOf({hsps[k].start : k \in 1..Len(hsps)})
    IN hsps[MinOf({k \in 1..Len(hsps) : hsps[k].start = low})]

BestOf(positions) ==
    LET most == MaxOf({hsps[k].identities : k \in positions})
    IN hsps[MinOf({k \in positions : hsps[k].identities = most})]

C9_Example ==
    (/\ call.op = "get_anchor_HSPs"
     /\ Len(hsps) = 2
     /\ Passing(CallMinExpect) = {1, 2}
     /\ \A k \in {1, 2} : hsps[k].frame = 1 /\ hsps[k].relative = "A"
     /\ {<<hsps[k].start, hsps[k].end>> : k \in {1, 2}} = {<<10, 99>>, <<150, 249>>})
    => /\ call.ret[3].start = 10
       /\ call.ret[4].end = 249

====
